---- MODULE Spec2Model ----
(***************************************************************************)
(* A model of polls/models.py: the schema declarations (primary keys,      *)
(* foreign keys with on_delete=CASCADE, the many-to-many relation through  *)
(* Membership, the choices of Person.shirt_size), the three model methods  *)
(* and the interactive sessions recorded in the docstrings.                *)
(***************************************************************************)
EXTENDS Integers, FiniteSets, Sequences, TLC

\* ------------------------------------------------------------------ bounds
MaxId == 2          \* largest automatic id of the Question and Choice tables
MaxPersons == 2     \* largest automatic id of the Person table
MaxGroups == 2      \* largest automatic id of the Group table
MaxMemberships == 2 \* largest number of rows of the Membership table
MaxSessions == 1    \* members.create() calls under way at the same time
MaxTime == 50       \* last clock reading, in hours
YearSpan == 1       \* years modelled on each side of the two boundary years
NumProcs == 2       \* concurrent processes incrementing the counter
MaxFiled == 2       \* largest initial value of stories_filed

\* --------------------------------------------------------------- constants
Day == 24           \* datetime.timedelta(days=1), in hours
NoPk == 0           \* the pk of an instance that was never saved (None)

VARIABLES
    questions,      \* Question table: id -> [question_text, pub_date]
    choices,        \* Choice table: id -> [question, choice_text, votes]
    q,              \* the session's Question instance
    fruits,         \* Fruit table: the set of stored names (name is the pk)
    fruit,          \* the session's Fruit instance: its name, the name it was
                    \* last saved under and the name it was created under
    persons,        \* Person table: id -> [name, shirt_size]
    groups,         \* Group table: id -> [name]
    memberships,    \* Membership table: [person, group] -> the number of rows
                    \* that hold these two keys
    display,        \* last get_shirt_size_display() call
    creating,       \* the members.create() calls whose Person is stored and
                    \* whose Membership is not inserted yet
    removed,        \* the Membership removal of the operation just carried out
    person,         \* the Person instance baby_boomer_status is called on
    boomer,         \* outcome of the last baby_boomer_status() call
    question,       \* the Question instance was_published_recently is called on
    now,            \* timezone.now(), in hours
    recent,         \* outcome of the last was_published_recently() call
    stories_filed,  \* Reporter row updated with F('stories_filed') + 1
    stories_py,     \* Reporter row updated by read, add one, save
    filed_at_start, \* value of both counters before any process runs
    pc,             \* position of each process
    reporter,       \* each process's Reporter instance: its stories_filed
    stmt,           \* the class statement of the module executed next
    defined,        \* the class names the module has bound so far
    import_state    \* "running", "loaded" or the exception that ended it

pollVars   == <<questions, choices, q>>
fruitVars  == <<fruits, fruit>>
groupVars  == <<persons, groups, memberships, display, creating, removed>>
boomerVars == <<person, boomer>>
recentVars == <<question, now, recent>>
fVars      == <<stories_filed, stories_py, filed_at_start, pc, reporter>>
importVars == <<stmt, defined, import_state>>
vars == <<pollVars, fruitVars, groupVars, boomerVars, recentVars, fVars, importVars>>

Ids == 1..MaxId
EmptyTable == [i \in {} |-> 0]

\* Rows of table t without the ids in gone.
Without(t, gone) == [i \in (DOMAIN t) \ gone |-> t[i]]

\* Table t with row i set to r (insert or overwrite).
Put(t, i, r) == [j \in (DOMAIN t) \cup {i} |-> IF j = i THEN r ELSE t[j]]

\* The ids a new row can get: greater than every stored id.
NewIdsIn(t, ids) == {i \in ids : \A j \in DOMAIN t : i > j}
NewIds(t) == NewIdsIn(t, Ids)

QuestionTexts == {"What's new?", "What's up?"}
\* A choice_text is the sequence of its characters.
NotMuch == <<"N", "o", "t", " ", "m", "u", "c", "h">>
TheSky == <<"T", "h", "e", " ", "s", "k", "y">>
JustHackingAgain ==
    <<"J", "u", "s", "t", " ", "h", "a", "c", "k", "i", "n", "g", " ", "a", "g", "a", "i", "n">>
ChoiceTexts == {NotMuch, TheSky, JustHackingAgain}

\* The prefixes the session filters Choices by.
ChoicePrefixes == {SubSeq(JustHackingAgain, 1, 12), SubSeq(NotMuch, 1, 3), TheSky}

\* choice_text__startswith=prefix
StartsWith(text, prefix) ==
    /\ Len(prefix) <= Len(text)
    /\ SubSeq(text, 1, Len(prefix)) = prefix

\* ------------------------------------------------------- Question, Choice
\* Question(question_text=t, pub_date=timezone.now()): an unsaved instance.
NewQuestion(t) == [id |-> NoPk, question_text |-> t, pub_date |-> now]

\* Model.save() for a table with an automatic id: the ids the saved row can
\* have.  An instance without a pk is inserted under a new id; an instance
\* with a pk overwrites the row of that pk, or is inserted under it when no
\* such row is stored.
SaveIds(t, pk) == IF pk = NoPk THEN NewIds(t) ELSE {pk}

\* The Choice rows a deletion of Question qid takes along (on_delete=CASCADE).
CascadeChoices_DoNothing(qid) == {}
CascadeChoices(qid) == {c \in DOMAIN choices : choices[c].question = qid}

\* q = Question(question_text=..., pub_date=timezone.now())
QuestionNew(t) ==
    /\ q' = NewQuestion(t)
    /\ UNCHANGED <<questions, choices>>
    /\ UNCHANGED <<fruitVars, groupVars, boomerVars, recentVars, fVars, importVars>>

\* q.save()
QuestionSave ==
    /\ \E i \in SaveIds(questions, q.id) :
          /\ questions' = Put(questions, i,
                 [question_text |-> q.question_text, pub_date |-> q.pub_date])
          /\ q' = [q EXCEPT !.id = i]
    /\ UNCHANGED choices
    /\ UNCHANGED <<fruitVars, groupVars, boomerVars, recentVars, fVars, importVars>>

\* q = Question.objects.get(pk=i)
QuestionGet(i) ==
    /\ i \in DOMAIN questions
    /\ q' = [id |-> i, question_text |-> questions[i].question_text,
             pub_date |-> questions[i].pub_date]
    /\ UNCHANGED <<questions, choices>>
    /\ UNCHANGED <<fruitVars, groupVars, boomerVars, recentVars, fVars, importVars>>

\* q.question_text = t
QuestionSetText(t) ==
    /\ q' = [q EXCEPT !.question_text = t]
    /\ UNCHANGED <<questions, choices>>
    /\ UNCHANGED <<fruitVars, groupVars, boomerVars, recentVars, fVars, importVars>>

\* Question.objects.get(pk=i).delete(): the row and, by the cascade of
\* Choice.question, the Choice rows that reference it.
QuestionDelete(i) ==
    /\ i \in DOMAIN questions
    /\ questions' = Without(questions, {i})
    /\ choices' = Without(choices, CascadeChoices(i))
    /\ UNCHANGED q
    /\ UNCHANGED <<fruitVars, groupVars, boomerVars, recentVars, fVars, importVars>>

\* q.choice_set.create(choice_text=t, votes=0): the foreign key must name a
\* stored Question, otherwise the insert is rejected.
ChoiceCreate(t) ==
    /\ q.id \in DOMAIN questions
    /\ \E c \in NewIds(choices) :
          choices' = Put(choices, c,
              [question |-> q.id, choice_text |-> t, votes |-> 0])
    /\ UNCHANGED <<questions, q>>
    /\ UNCHANGED <<fruitVars, groupVars, boomerVars, recentVars, fVars, importVars>>

\* c = q.choice_set.filter(choice_text__startswith=prefix); c.delete():
\* deleting an empty queryset changes nothing.
ChoiceDelete(prefix) ==
    /\ LET c == {i \in DOMAIN choices :
                    /\ choices[i].question = q.id
                    /\ StartsWith(choices[i].choice_text, prefix)}
       IN choices' = Without(choices, c)
    /\ UNCHANGED <<questions, q>>
    /\ UNCHANGED <<fruitVars, groupVars, boomerVars, recentVars, fVars, importVars>>

\* ------------------------------------------------------------------ Fruit
FruitNames == {"Apple", "Pear", "Plum"}

\* Model.save() for Fruit, whose only field is its primary key: the row of
\* that name is stored afterwards, whether or not it was stored before.
SaveFruit_Rename(rows, old, new) == (rows \ {old}) \cup {new}
SaveFruit(rows, old, new) == rows \cup {new}

\* fruit = Fruit.objects.create(name=n): an INSERT, rejected when a row of
\* that primary key is stored already.
FruitCreate(n) ==
    /\ n \notin fruits
    /\ fruits' = fruits \cup {n}
    /\ fruit' = [name |-> n, loaded |-> n, created |-> n]
    /\ UNCHANGED <<pollVars, groupVars, boomerVars, recentVars, fVars, importVars>>

\* fruit.name = n
FruitSetName(n) ==
    /\ fruit.loaded # ""
    /\ fruit' = [fruit EXCEPT !.name = n]
    /\ UNCHANGED fruits
    /\ UNCHANGED <<pollVars, groupVars, boomerVars, recentVars, fVars, importVars>>

\* fruit.save()
FruitSave ==
    /\ fruit.loaded # ""
    /\ fruits' = SaveFruit(fruits, fruit.loaded, fruit.name)
    /\ fruit' = [fruit EXCEPT !.loaded = fruit.name]
    /\ UNCHANGED <<pollVars, groupVars, boomerVars, recentVars, fVars, importVars>>

\* ------------------------------------------- Person, Group and Membership
PersonNames == {"Ringo Starr", "Paul McCartney"}
GroupNames == {"The Beatles"}
\* The names given to the Persons that take part in Memberships.
MemberNames == {"Ringo Starr"}
PersonIds == 1..MaxPersons
GroupIds == 1..MaxGroups

\* Person.SHIRT_SIZES as a mapping from stored value to label.
SHIRT_SIZES == [s \in {"S", "M", "L"} |->
                   CASE s = "S" -> "Small" [] s = "M" -> "Medium" [] s = "L" -> "Large"]

\* The value a CharField without a default stores when none is given.
CharFieldDefault == ""

\* Person.get_shirt_size_display(): the label of the stored value, or the
\* value itself when SHIRT_SIZES has no entry for it.
get_shirt_size_display(size) ==
    IF size \in DOMAIN SHIRT_SIZES THEN SHIRT_SIZES[size] ELSE size

\* Whether the operation just carried out removed Membership rows: for a
\* delete() or clear() that removed some, the operation and the id it was
\* called on; otherwise nothing.
NothingRemoved == [op |-> "none", id |-> NoPk]
Removed(op, i, rows) == IF rows = {} THEN NothingRemoved ELSE [op |-> op, id |-> i]

\* p = Person(name=n, shirt_size=s); p.save()
PersonSave(n, s) ==
    /\ \E i \in NewIdsIn(persons, PersonIds) :
          persons' = Put(persons, i, [name |-> n, shirt_size |-> s])
    /\ UNCHANGED <<groups, memberships, display, creating>>
    /\ removed' = NothingRemoved
    /\ UNCHANGED <<pollVars, fruitVars, boomerVars, recentVars, fVars, importVars>>

\* Person.objects.create(name=n): shirt_size is not given.
PersonCreate(n) ==
    /\ \E i \in NewIdsIn(persons, PersonIds) :
          persons' = Put(persons, i, [name |-> n, shirt_size |-> CharFieldDefault])
    /\ UNCHANGED <<groups, memberships, display, creating>>
    /\ removed' = NothingRemoved
    /\ UNCHANGED <<pollVars, fruitVars, boomerVars, recentVars, fVars, importVars>>

\* Person.objects.get(pk=p).get_shirt_size_display()
GetShirtSizeDisplay(p) ==
    /\ p \in DOMAIN persons
    /\ display' = [id |-> p, label |-> get_shirt_size_display(persons[p].shirt_size)]
    /\ UNCHANGED <<persons, groups, memberships, creating>>
    /\ removed' = NothingRemoved
    /\ UNCHANGED <<pollVars, fruitVars, boomerVars, recentVars, fVars, importVars>>

\* beatles = Group.objects.create(name=n)
GroupCreate(n) ==
    /\ \E i \in NewIdsIn(groups, GroupIds) : groups' = Put(groups, i, [name |-> n])
    /\ UNCHANGED <<persons, memberships, display, creating>>
    /\ removed' = NothingRemoved
    /\ UNCHANGED <<pollVars, fruitVars, boomerVars, recentVars, fVars, importVars>>

\* The Membership rows that link Person p and Group g.
Links(p, g) == {r \in DOMAIN memberships : r.person = p /\ r.group = g}

\* The number of rows of Membership table t.
RECURSIVE RowCountOf(_, _)
RowCountOf(t, rows) ==
    IF rows = {} THEN 0
    ELSE LET r == CHOOSE x \in rows : TRUE
         IN t[r] + RowCountOf(t, rows \ {r})
RowCount(t) == RowCountOf(t, DOMAIN t)

\* Membership table t after the insert of one row linking Person p and
\* Group g.
PutLink(t, p, g) ==
    LET r == [person |-> p, group |-> g]
    IN Put(t, r, IF r \in DOMAIN t THEN t[r] + 1 ELSE 1)

\* group.members.all(): the Person rows joined to Group g through Membership.
Members(g) ==
    {p \in DOMAIN persons :
        \E r \in DOMAIN memberships : r.group = g /\ r.person = p}

\* person.group_set.all(): the Group rows joined to Person p through Membership.
GroupSet(p) ==
    {g \in DOMAIN groups :
        \E r \in DOMAIN memberships : r.person = p /\ r.group = g}

\* The Membership rows a deletion of Person p takes along (on_delete=CASCADE).
CascadePerson_DoNothing(p) == {}
CascadePerson(p) == {r \in DOMAIN memberships : r.person = p}

\* The Membership rows a deletion of Group g takes along (on_delete=CASCADE).
CascadeGroup(g) == {r \in DOMAIN memberships : r.group = g}

\* The Membership rows group.members.clear() deletes.
ClearRows_All(g) == DOMAIN memberships
ClearRows(g) == {r \in DOMAIN memberships : r.group = g}

\* Membership(person=p, group=g, ...).save() and Membership.objects.create:
\* both foreign keys must name stored rows.
MembershipCreate(p, g) ==
    /\ p \in DOMAIN persons
    /\ g \in DOMAIN groups
    /\ RowCount(memberships) < MaxMemberships
    /\ memberships' = PutLink(memberships, p, g)
    /\ UNCHANGED <<persons, groups, display, creating>>
    /\ removed' = NothingRemoved
    /\ UNCHANGED <<pollVars, fruitVars, boomerVars, recentVars, fVars, importVars>>

\* The related manager group.members belongs to a Group instance g that a
\* session holds; another session may have deleted the row of g since.

\* group.members.add(p, through_defaults=...): a row is inserted only when
\* none links the two yet; the insert is rejected (IntegrityError) when the
\* Group of the instance is not stored any more.
MembersAdd(g, p) ==
    /\ p \in DOMAIN persons
    /\ g \in GroupIds
    /\ IF g \notin DOMAIN groups \/ Links(p, g) # {}
       THEN UNCHANGED memberships
       ELSE /\ RowCount(memberships) < MaxMemberships
            /\ memberships' = PutLink(memberships, p, g)
    /\ UNCHANGED <<persons, groups, display, creating>>
    /\ removed' = NothingRemoved
    /\ UNCHANGED <<pollVars, fruitVars, boomerVars, recentVars, fVars, importVars>>

\* group.members.create(name=n, through_defaults=...), first half: the new
\* Person is inserted and committed, whether or not the Group of the
\* instance is still stored.
MembersCreate(g, n) ==
    /\ Cardinality(creating) < MaxSessions
    /\ g \in GroupIds
    /\ \E p \in NewIdsIn(persons, PersonIds) :
          /\ persons' = Put(persons, p, [name |-> n, shirt_size |-> CharFieldDefault])
          /\ creating' = creating \cup {[group |-> g, person |-> p]}
    /\ UNCHANGED <<groups, memberships, display>>
    /\ removed' = NothingRemoved
    /\ UNCHANGED <<pollVars, fruitVars, boomerVars, recentVars, fVars, importVars>>

\* group.members.create, second half: add() inserts the Membership that
\* links the new Person to the Group.  When the Group or the Person is not
\* stored (any more) the insert is rejected (IntegrityError) and nothing is
\* written; the Person of the first half stays as it is.
MembersCreateAdd(c) ==
    /\ c \in creating
    /\ LET g == c.group
           p == c.person
       IN IF g \notin DOMAIN groups \/ p \notin DOMAIN persons \/ Links(p, g) # {}
          THEN UNCHANGED memberships
          ELSE /\ RowCount(memberships) < MaxMemberships
               /\ memberships' = PutLink(memberships, p, g)
    /\ creating' = creating \ {c}
    /\ UNCHANGED <<persons, groups, display>>
    /\ removed' = NothingRemoved
    /\ UNCHANGED <<pollVars, fruitVars, boomerVars, recentVars, fVars, importVars>>

\* Membership table t after the insert of one row linking g to each Person
\* of ps.
RECURSIVE AddAll(_, _, _)
AddAll(t, g, ps) ==
    IF ps = {} THEN t
    ELSE LET p == CHOOSE x \in ps : TRUE
         IN AddAll(PutLink(t, p, g), g, ps \ {p})

\* group.members.set(ps, through_defaults=...): the rows of the Group whose
\* Person is not in ps are deleted, a row is inserted for each Person of ps
\* that is not a member yet.  Both happen in one transaction, which is
\* rolled back when an insert is rejected because the Group is not stored.
MembersSet(g, ps) ==
    /\ g \in GroupIds
    /\ ps \subseteq DOMAIN persons
    /\ IF g \notin DOMAIN groups
       THEN UNCHANGED memberships
       ELSE LET kept == Without(memberships,
                           {r \in DOMAIN memberships : r.group = g /\ r.person \notin ps})
                added == AddAll(kept, g, ps \ Members(g))
            IN /\ RowCount(added) <= MaxMemberships
               /\ memberships' = added
    /\ UNCHANGED <<persons, groups, display, creating>>
    /\ removed' = NothingRemoved
    /\ UNCHANGED <<pollVars, fruitVars, boomerVars, recentVars, fVars, importVars>>

\* group.members.clear()
MembersClear(g) ==
    /\ g \in GroupIds
    /\ memberships' = Without(memberships, ClearRows(g))
    /\ removed' = Removed("clear", g, ClearRows(g))
    /\ UNCHANGED <<persons, groups, display, creating>>
    /\ UNCHANGED <<pollVars, fruitVars, boomerVars, recentVars, fVars, importVars>>

\* Person.objects.get(pk=p).delete()
PersonDelete(p) ==
    /\ p \in DOMAIN persons
    /\ persons' = Without(persons, {p})
    /\ memberships' = Without(memberships, CascadePerson(p))
    /\ removed' = Removed("delete_person", p, CascadePerson(p))
    /\ UNCHANGED <<groups, display, creating>>
    /\ UNCHANGED <<pollVars, fruitVars, boomerVars, recentVars, fVars, importVars>>

\* Group.objects.get(pk=g).delete()
GroupDelete(g) ==
    /\ g \in DOMAIN groups
    /\ groups' = Without(groups, {g})
    /\ memberships' = Without(memberships, CascadeGroup(g))
    /\ removed' = Removed("delete_group", g, CascadeGroup(g))
    /\ UNCHANGED <<persons, display, creating>>
    /\ UNCHANGED <<pollVars, fruitVars, boomerVars, recentVars, fVars, importVars>>

\* ------------------------------------------------ Person.baby_boomer_status
\* A datetime.date is <<year, month, day>>; a NULL birth_date is Null.
Null == <<>>
Date(y, m, d) == <<y, m, d>>

IsLeap(y) == (y % 4 = 0) /\ ((y % 100 # 0) \/ (y % 400 = 0))

DaysInMonth(y, m) ==
    IF m = 2 THEN (IF IsLeap(y) THEN 29 ELSE 28)
    ELSE IF m \in {4, 6, 9, 11} THEN 30 ELSE 31

Years == ((1945 - YearSpan)..(1945 + YearSpan)) \cup ((1965 - YearSpan)..(1965 + YearSpan))
Dates == {dt \in {Date(y, m, d) : y \in Years, m \in 1..12, d \in 1..31} :
             dt[3] <= DaysInMonth(dt[1], dt[2])}

\* date.__lt__: dates compare as (year, month, day).
DateLT(a, b) ==
    \/ a[1] < b[1]
    \/ a[1] = b[1] /\ a[2] < b[2]
    \/ a[1] = b[1] /\ a[2] = b[2] /\ a[3] < b[3]

Returned(v) == [called |-> TRUE, returned |-> v, raised |-> ""]
Raised(e) == [called |-> TRUE, returned |-> "", raised |-> e]
NotCalled == [called |-> FALSE, returned |-> "", raised |-> ""]

\* Person.baby_boomer_status(): comparing None with a date raises TypeError.
baby_boomer_status_Le(birth_date) ==
    IF birth_date = Null THEN Raised("TypeError")
    ELSE IF ~DateLT(Date(1945, 8, 1), birth_date) THEN Returned("Pre-boomer")
    ELSE IF DateLT(birth_date, Date(1965, 1, 1)) THEN Returned("Baby boomer")
    ELSE Returned("Post-boomer")
baby_boomer_status(birth_date) ==
    IF birth_date = Null THEN Raised("TypeError")
    ELSE IF DateLT(birth_date, Date(1945, 8, 1)) THEN Returned("Pre-boomer")
    ELSE IF DateLT(birth_date, Date(1965, 1, 1)) THEN Returned("Baby boomer")
    ELSE Returned("Post-boomer")

\* person.baby_boomer_status()
BabyBoomerStatus ==
    /\ boomer' = baby_boomer_status(person.birth_date)
    /\ UNCHANGED person
    /\ UNCHANGED <<pollVars, fruitVars, groupVars, recentVars, fVars, importVars>>

\* ------------------------------------------ Question.was_published_recently
\* self.pub_date >= timezone.now() - datetime.timedelta(days=1)
was_published_recently_Le(pub_date, t) == pub_date <= t - Day
was_published_recently(pub_date, t) == pub_date >= t - Day

\* question.was_published_recently()
WasPublishedRecently ==
    /\ recent' = [called |-> TRUE, at |-> now,
                  value |-> was_published_recently(question.pub_date, now)]
    /\ UNCHANGED <<question, now>>
    /\ UNCHANGED <<pollVars, fruitVars, groupVars, boomerVars, fVars, importVars>>

\* The clock advances by one hour.
Tick ==
    /\ now < MaxTime
    /\ now' = now + 1
    /\ UNCHANGED <<question, recent>>
    /\ UNCHANGED <<pollVars, fruitVars, groupVars, boomerVars, fVars, importVars>>

\* ----------------------------------------------------------- F expressions
Procs == 1..NumProcs

\* The stories_filed attribute of an instance is a loaded number or the
\* expression F('stories_filed') + n; before the first get there is none.
Value(n) == [kind |-> "value", n |-> n]
NoInstance == [kind |-> "none", n |-> 0]

\* reporter.stories_filed = F('stories_filed') + 1
AssignF_Python(attr) == Value(attr.n + 1)
AssignF(attr) == [kind |-> "F", n |-> 1]

\* The value save() writes to the row: an F expression is computed by the
\* database from the row, a number is written as it is.
SaveValue(row, attr) == IF attr.kind = "F" THEN row + attr.n ELSE attr.n

\* reporter = Reporters.objects.get(name='Tintin')
ReporterGet(p) ==
    /\ pc[p] = "get"
    /\ reporter' = [reporter EXCEPT ![p] = Value(stories_filed)]
    /\ pc' = [pc EXCEPT ![p] = "assign_f"]
    /\ UNCHANGED <<stories_filed, stories_py, filed_at_start>>
    /\ UNCHANGED <<pollVars, fruitVars, groupVars, boomerVars, recentVars, importVars>>

\* reporter.stories_filed = F('stories_filed') + 1
ReporterAssignF(p) ==
    /\ pc[p] = "assign_f"
    /\ reporter' = [reporter EXCEPT ![p] = AssignF(reporter[p])]
    /\ pc' = [pc EXCEPT ![p] = "save_f"]
    /\ UNCHANGED <<stories_filed, stories_py, filed_at_start>>
    /\ UNCHANGED <<pollVars, fruitVars, groupVars, boomerVars, recentVars, importVars>>

\* reporter.save(): the instance keeps the expression.
ReporterSaveF(p) ==
    /\ pc[p] = "save_f"
    /\ stories_filed' = SaveValue(stories_filed, reporter[p])
    /\ pc' = [pc EXCEPT ![p] = "refresh"]
    /\ UNCHANGED <<stories_py, filed_at_start, reporter>>
    /\ UNCHANGED <<pollVars, fruitVars, groupVars, boomerVars, recentVars, importVars>>

\* reporter.refresh_from_db(): the instance holds the updated value.
ReporterRefresh(p) ==
    /\ pc[p] = "refresh"
    /\ reporter' = [reporter EXCEPT ![p] = Value(stories_filed)]
    /\ pc' = [pc EXCEPT ![p] = "update"]
    /\ UNCHANGED <<stories_filed, stories_py, filed_at_start>>
    /\ UNCHANGED <<pollVars, fruitVars, groupVars, boomerVars, recentVars, importVars>>

\* Reporter.objects.all().update(stories_filed=F('stories_filed') + 1):
\* every Reporter row is incremented in the database.
ReporterUpdateAll(p) ==
    /\ pc[p] = "update"
    /\ stories_filed' = stories_filed + 1
    /\ stories_py' = stories_py + 1
    /\ pc' = [pc EXCEPT ![p] = "get_py"]
    /\ UNCHANGED <<filed_at_start, reporter>>
    /\ UNCHANGED <<pollVars, fruitVars, groupVars, boomerVars, recentVars, importVars>>

\* Python-side saving and updating: a second Reporter row is loaded into
\* memory ...
ReporterGetPy(p) ==
    /\ pc[p] = "get_py"
    /\ reporter' = [reporter EXCEPT ![p] = Value(stories_py)]
    /\ pc' = [pc EXCEPT ![p] = "add_py"]
    /\ UNCHANGED <<stories_filed, stories_py, filed_at_start>>
    /\ UNCHANGED <<pollVars, fruitVars, groupVars, boomerVars, recentVars, importVars>>

\* ... one is added to the loaded value ...
ReporterAddPy(p) ==
    /\ pc[p] = "add_py"
    /\ reporter' = [reporter EXCEPT ![p] = Value(reporter[p].n + 1)]
    /\ pc' = [pc EXCEPT ![p] = "save_py"]
    /\ UNCHANGED <<stories_filed, stories_py, filed_at_start>>
    /\ UNCHANGED <<pollVars, fruitVars, groupVars, boomerVars, recentVars, importVars>>

\* ... and the instance is saved.
ReporterSavePy(p) ==
    /\ pc[p] = "save_py"
    /\ stories_py' = SaveValue(stories_py, reporter[p])
    /\ pc' = [pc EXCEPT ![p] = "done"]
    /\ UNCHANGED <<stories_filed, filed_at_start, reporter>>
    /\ UNCHANGED <<pollVars, fruitVars, groupVars, boomerVars, recentVars, importVars>>

\* ------------------------------------------------------ loading the module
\* The class statements of the module in the order they are executed, each
\* with the module-level names its body evaluates.  A relation given as a
\* string ('Membership') is resolved later and evaluates no name.
ClassStatements == <<
    [name |-> "Question", uses |-> {}],
    [name |-> "Choice", uses |-> {"Question"}],
    [name |-> "Person", uses |-> {}],
    [name |-> "Group", uses |-> {"Person"}],
    [name |-> "Membership", uses |-> {"Person", "Group"}],
    [name |-> "Ox", uses |-> {}],
    [name |-> "Musician", uses |-> {}],
    [name |-> "Album", uses |-> {"Musician"}],
    [name |-> "Runner", uses |-> {}],
    [name |-> "Fruit", uses |-> {}],
    [name |-> "Manufacturer", uses |-> {}],
    [name |-> "Car", uses |-> {"Manufacturer"}],
    [name |-> "Topping", uses |-> {}],
    [name |-> "Pizza", uses |-> {"Topping"}],
    [name |-> "Blog1", uses |-> {}],
    [name |-> "Blog", uses |-> {}],
    [name |-> "Entry", uses |-> {"Blog", "Author"}],
    [name |-> "QObjects", uses |-> {}],
    [name |-> "Author", uses |-> {}],
    [name |-> "Publisher", uses |-> {}],
    [name |-> "Book", uses |-> {"Author", "Publisher"}],
    [name |-> "Store", uses |-> {"Book"}] >>

\* The next class statement is executed: its name is bound, or the import
\* ends with NameError when its body evaluates a name that is not bound yet.
ExecuteClass ==
    /\ import_state = "running"
    /\ LET c == ClassStatements[stmt]
       IN IF c.uses \subseteq defined
          THEN /\ defined' = defined \cup {c.name}
               /\ stmt' = stmt + 1
               /\ import_state' = IF stmt = Len(ClassStatements)
                                   THEN "loaded" ELSE "running"
          ELSE /\ import_state' = "NameError"
               /\ UNCHANGED <<stmt, defined>>
    /\ UNCHANGED <<pollVars, fruitVars, groupVars, boomerVars, recentVars, fVars>>

\* ---------------------------------------------------------- specifications
InitPolls ==
    /\ questions = EmptyTable
    /\ choices = EmptyTable
    /\ q = [id |-> NoPk, question_text |-> "What's new?", pub_date |-> 0]
InitFruit ==
    /\ fruits = {}
    /\ fruit = [name |-> "", loaded |-> "", created |-> ""]
InitGroups ==
    /\ persons = EmptyTable
    /\ groups = EmptyTable
    /\ memberships = EmptyTable
    /\ display = [id |-> NoPk, label |-> ""]
    /\ creating = {}
    /\ removed = NothingRemoved
InitBoomer ==
    /\ person = [birth_date |-> Null]
    /\ boomer = NotCalled
InitRecent ==
    /\ question = [pub_date |-> 0]
    /\ now = 0
    /\ recent = [called |-> FALSE, at |-> 0, value |-> FALSE]
InitF ==
    /\ stories_filed = 0
    /\ stories_py = 0
    /\ filed_at_start = 0
    /\ pc = [p \in Procs |-> "get"]
    /\ reporter = [p \in Procs |-> NoInstance]

\* Questions and their Choices.
NextCascade ==
    \/ \E t \in QuestionTexts : QuestionNew(t)
    \/ QuestionSave
    \/ \E i \in Ids : QuestionGet(i)
    \/ \E i \in Ids : QuestionDelete(i)
    \/ \E t \in ChoiceTexts : ChoiceCreate(t)
    \/ \E t \in ChoicePrefixes : ChoiceDelete(t)
\* The module body has not been executed.
InitImport ==
    /\ stmt = 1
    /\ defined = {}
    /\ import_state = "running"
\* The classes Question to Fruit and the F expression snippet, each taken on
\* its own with its tables empty.
Init ==
    InitPolls /\ InitFruit /\ InitGroups /\ InitBoomer /\ InitRecent /\ InitF /\ InitImport
Spec == Init /\ [][NextCascade]_vars

\* Saving changed instances of Question and Fruit.
NextSave ==
    \/ \E t \in QuestionTexts : QuestionNew(t)
    \/ QuestionSave
    \/ \E i \in Ids : QuestionGet(i)
    \/ \E t \in QuestionTexts : QuestionSetText(t)
    \/ \E i \in Ids : QuestionDelete(i)
    \/ \E n \in FruitNames : FruitCreate(n)
    \/ \E n \in FruitNames : FruitSetName(n)
    \/ FruitSave
SpecSave == Init /\ [][NextSave]_vars

\* Persons, Groups and the Memberships between them.
NextGroups ==
    \/ \E n \in MemberNames : PersonCreate(n)
    \/ \E n \in GroupNames : GroupCreate(n)
    \/ \E p \in PersonIds, g \in GroupIds : MembershipCreate(p, g)
    \/ \E p \in PersonIds, g \in GroupIds : MembersAdd(g, p)
    \/ \E g \in GroupIds, n \in MemberNames : MembersCreate(g, n)
    \/ \E c \in creating : MembersCreateAdd(c)
    \/ \E g \in GroupIds, ps \in SUBSET DOMAIN persons : MembersSet(g, ps)
    \/ \E g \in GroupIds : MembersClear(g)
    \/ \E p \in PersonIds : PersonDelete(p)
    \/ \E g \in GroupIds : GroupDelete(g)
SpecGroups == Init /\ [][NextGroups]_vars

\* Persons and their shirt sizes.
NextPerson ==
    \/ \E n \in PersonNames, s \in DOMAIN SHIRT_SIZES : PersonSave(n, s)
    \/ \E n \in PersonNames : PersonCreate(n)
    \/ \E p \in PersonIds : GetShirtSizeDisplay(p)
SpecPerson == Init /\ [][NextPerson]_vars

\* baby_boomer_status on every Person the schema allows.
InitBoomerInputs ==
    /\ person \in [birth_date : Dates \cup {Null}]
    /\ boomer = NotCalled
InitBoomerSpec ==
    InitPolls /\ InitFruit /\ InitGroups /\ InitBoomerInputs /\ InitRecent /\ InitF
    /\ InitImport
NextBoomer == BabyBoomerStatus
SpecBoomer == InitBoomerSpec /\ [][NextBoomer]_vars

\* was_published_recently while the clock advances.
InitRecentInputs ==
    /\ question \in [pub_date : 0..MaxTime]
    /\ now = 0
    /\ recent = [called |-> FALSE, at |-> 0, value |-> FALSE]
NextRecent == WasPublishedRecently \/ Tick
InitRecentSpec ==
    InitPolls /\ InitFruit /\ InitGroups /\ InitBoomer /\ InitRecentInputs /\ InitF
    /\ InitImport
SpecRecent == InitRecentSpec /\ [][NextRecent]_vars

\* Concurrent increments of a Reporter's counter.
InitFInputs ==
    /\ filed_at_start \in 0..MaxFiled
    /\ stories_filed = filed_at_start
    /\ stories_py = filed_at_start
    /\ pc = [p \in Procs |-> "get"]
    /\ reporter = [p \in Procs |-> NoInstance]
NextF ==
    \/ \E p \in Procs : ReporterGet(p)
    \/ \E p \in Procs : ReporterAssignF(p)
    \/ \E p \in Procs : ReporterSaveF(p)
    \/ \E p \in Procs : ReporterRefresh(p)
    \/ \E p \in Procs : ReporterUpdateAll(p)
    \/ \E p \in Procs : ReporterGetPy(p)
    \/ \E p \in Procs : ReporterAddPy(p)
    \/ \E p \in Procs : ReporterSavePy(p)
InitFSpec ==
    InitPolls /\ InitFruit /\ InitGroups /\ InitBoomer /\ InitRecent /\ InitFInputs
    /\ InitImport
SpecF == InitFSpec /\ [][NextF]_vars

\* Executing the module top to bottom, as an import does.
NextImport == ExecuteClass
SpecImport == Init /\ [][NextImport]_vars

\* ------------------------------------------------------------- properties
Labels == {"Pre-boomer", "Baby boomer", "Post-boomer"}

\* C1: every stored Choice references a stored Question, and a step that
\* deletes a Question removes the Choices that reference it and no others.
ChoicesReferenceStored ==
    \A c \in DOMAIN choices : choices[c].question \in DOMAIN questions
DeleteTakesOwnChoices ==
    \A i \in DOMAIN questions :
        i \notin DOMAIN questions' =>
            /\ \A c \in DOMAIN choices :
                  (c \in DOMAIN choices') <=> (choices[c].question # i)
            /\ \A c \in DOMAIN choices' : c \in DOMAIN choices /\ choices'[c] = choices[c]
CascadeDelete == []ChoicesReferenceStored /\ [][DeleteTakesOwnChoices]_vars

\* C1 witness: the session's Question was deleted while another Question
\* still has a Choice.
CascadeDeleteSeen ==
    /\ q.id # NoPk
    /\ q.id \notin DOMAIN questions
    /\ \E c \in DOMAIN choices : choices[c].question \in DOMAIN questions

\* C2: for every Person p and Group g, p is in g.members iff g is in
\* p.group_set iff a Membership row links them, and every Membership
\* references a stored Person and a stored Group.
ThroughMembership ==
    /\ \A p \in PersonIds, g \in GroupIds :
          /\ (p \in Members(g)) <=> (g \in GroupSet(p))
          /\ (p \in Members(g)) <=> (Links(p, g) # {})
    /\ \A r \in DOMAIN memberships :
          /\ r.person \in DOMAIN persons
          /\ r.group \in DOMAIN groups

\* C2 witness: a delete() of a Person has just taken a Membership along, and another Person is still a member of a Group.
ThroughMembershipSeen ==
    /\ removed.op = "delete_person"
    /\ removed.id \notin DOMAIN persons
    /\ \E p \in DOMAIN persons, g \in DOMAIN groups :
          p \in Members(g) /\ g \in GroupSet(p) /\ Links(p, g) # {}

\* C3: a members.clear() step on Group g leaves no Membership of g, so that
\* no lookup by g and a Person finds a row, and leaves the Persons, the
\* Groups and the Memberships of the other Groups as they were.
ClearEffect ==
    \A g \in GroupIds :
        MembersClear(g) =>
            /\ \A p \in PersonIds :
                  {r \in DOMAIN memberships' : r.group = g /\ r.person = p} = {}
            /\ persons' = persons
            /\ groups' = groups
            /\ \A r \in DOMAIN memberships :
                  r.group # g =>
                      r \in DOMAIN memberships' /\ memberships'[r] = memberships[r]
            /\ \A r \in DOMAIN memberships' : r \in DOMAIN memberships
ClearDeletesMemberships == [][ClearEffect]_vars

\* C3 witness: a clear() has just removed a Membership of a Group that is
\* still stored and has no member now, another Group still has a member
\* and both Persons are stored.
ClearSeen ==
    /\ removed.op = "clear"
    /\ removed.id \in DOMAIN groups
    /\ Members(removed.id) = {}
    /\ Cardinality(DOMAIN persons) = 2
    /\ \E h \in DOMAIN groups : h # removed.id /\ Members(h) # {}

\* A save() step of a Fruit whose name was changed since it was stored.
RenamedFruitSave ==
    FruitSave /\ fruit.loaded \in fruits /\ fruit.name # fruit.loaded
\* A save() step of a stored Question whose question_text was changed.
ChangedQuestionSave ==
    /\ QuestionSave
    /\ q.id \in DOMAIN questions
    /\ q.question_text # questions[q.id].question_text
\* The step overwrites the Question's row and nothing else.
UpdatedInPlace ==
    /\ DOMAIN questions' = DOMAIN questions
    /\ questions'[q.id].question_text = q.question_text
    /\ questions'[q.id].pub_date = questions[q.id].pub_date
    /\ \A j \in DOMAIN questions : j # q.id => questions'[j] = questions[j]

\* C4 as stated: saving a renamed Fruit adds a row and keeps the old one,
\* the row count grows by one; saving a changed Question updates in place.
SaveAlwaysAddsFruit ==
    [][/\ RenamedFruitSave =>
             /\ fruit.loaded \in fruits'
             /\ fruit.name \in fruits'
             /\ Cardinality(fruits') = Cardinality(fruits) + 1
       /\ ChangedQuestionSave => UpdatedInPlace]_vars

\* C4 amended: saving a renamed Fruit keeps the old row and every other row
\* and leaves a row of the new name stored; the row count grows by one when
\* no row of the new name was stored, and is unchanged otherwise.  Saving a
\* changed Question updates its row in place.
PrimaryKeySave ==
    [][/\ RenamedFruitSave =>
             /\ fruits \subseteq fruits'
             /\ fruit.name \in fruits'
             /\ Cardinality(fruits') =
                   Cardinality(fruits) + (IF fruit.name \in fruits THEN 0 ELSE 1)
       /\ ChangedQuestionSave => UpdatedInPlace]_vars

\* C4 witness: a Fruit created as Apple was saved as Pear and both rows are
\* stored, and the session's Question is stored with the changed text.
PrimaryKeySaveSeen ==
    /\ fruit.created = "Apple"
    /\ fruit.loaded = "Pear"
    /\ fruits = {"Apple", "Pear"}
    /\ q.id \in DOMAIN questions
    /\ questions[q.id].question_text = "What's up?"

\* C5: the counter updated with F expressions equals its initial value plus
\* the number of increments made so far, under every interleaving.
FIncrementsAllCount ==
    stories_filed =
        filed_at_start
        + Cardinality({p \in Procs : pc[p] \notin {"get", "assign_f", "save_f"}})
        + Cardinality({p \in Procs : pc[p] \in {"get_py", "add_py", "save_py", "done"}})

\* C5 witness: every process is done, the F counter has every increment and
\* the Python-side counter has lost one.
LostUpdateSeen ==
    /\ \A p \in Procs : pc[p] = "done"
    /\ stories_filed = filed_at_start + 2 * NumProcs
    /\ stories_py < filed_at_start + 2 * NumProcs

\* C6: every stored Person's shirt_size is 'S', 'M' or 'L', and
\* get_shirt_size_display() returns its label.
ShirtSizeEnumerated ==
    /\ \A p \in DOMAIN persons : persons[p].shirt_size \in {"S", "M", "L"}
    /\ display.id # NoPk => display.label \in {"Small", "Medium", "Large"}

\* C7: a non-null birth_date is classified by its position relative to
\* 1945-08-01 and 1965-01-01, counted in days.
DaysBeforeYear(y) == (y - 1) * 365 + ((y - 1) \div 4) - ((y - 1) \div 100) + ((y - 1) \div 400)
RECURSIVE DaysBeforeMonth(_, _)
DaysBeforeMonth(y, m) ==
    IF m = 1 THEN 0 ELSE DaysBeforeMonth(y, m - 1) + DaysInMonth(y, m - 1)
Ordinal(dt) == DaysBeforeYear(dt[1]) + DaysBeforeMonth(dt[1], dt[2]) + dt[3]
BoomerClassification ==
    (boomer.called /\ person.birth_date # Null) =>
        LET n == Ordinal(person.birth_date)
            lo == Ordinal(<<1945, 8, 1>>)
            hi == Ordinal(<<1965, 1, 1>>)
        IN /\ boomer.raised = ""
           /\ boomer.returned \in Labels
           /\ (boomer.returned = "Pre-boomer") <=> (n < lo)
           /\ (boomer.returned = "Baby boomer") <=> (lo <= n /\ n < hi)
           /\ (boomer.returned = "Post-boomer") <=> (hi <= n)

\* C7 witness: the call on the boundary date 1945-08-01 returned.
BoomerBoundarySeen ==
    /\ boomer.called
    /\ person.birth_date = <<1945, 8, 1>>
    /\ boomer.returned = "Baby boomer"

\* C8: was_published_recently() returns True iff pub_date lies between one
\* day before the time of the call and the time of the call.
RecentIffWithinLastDay ==
    recent.called =>
        (recent.value <=>
            (recent.at - Day <= question.pub_date /\ question.pub_date <= recent.at))

\* C9: with pub_date fixed, a call that follows a call that returned False
\* returns False.
RecentNeverAgain ==
    [][(question'.pub_date = question.pub_date /\ recent.called /\ ~recent.value)
          => ~recent'.value]_vars

\* C9 witness: a call made more than a day after pub_date returned False.
RecentNeverAgainSeen ==
    /\ recent.called
    /\ ~recent.value
    /\ recent.at > question.pub_date + Day
    /\ now > recent.at

\* C10: baby_boomer_status returns a label for every Person, also for one
\* whose birth_date is null.
BoomerAlwaysReturns ==
    boomer.called => (boomer.raised = "" /\ boomer.returned \in Labels)
====
